---- MODULE Spec2Model ----
(***************************************************************************)
(* A model of fooof(), the single-spectrum fitting function of             *)
(* src/fooof/fooof.py, and of the helpers it calls (trim_psd,              *)
(* get_index_from_vector, clean_background_fit, group_three).              *)
(*                                                                         *)
(* Units.  Frequencies are integers in half-Hz ticks (Hz(h) = 2h), so that *)
(* a frequency resolution of 1 Hz (df = 2) and of 0.5 Hz (df = 1) are both *)
(* exact.  Peak widths are integers in milli-Hz.  Powers are integers.     *)
(* Arrays are sequences; the operators At, PySlice and ZeroSlice give them *)
(* Python's 0-based indexing and slice semantics.                          *)
(*                                                                         *)
(* scipy.optimize.curve_fit is not code of the repository.  It is a         *)
(* deterministic function of its arguments, unknown to the model: the      *)
(* first call with given arguments is a nondeterministic choice between    *)
(* raising and returning parameters inside the bounds, the variable oracle *)
(* remembers the choice, and a later call with the same arguments gets the *)
(* same answer.                                                            *)
(*                                                                         *)
(* Spec is one call of fooof.  SpecCalls is a sequence of calls on the     *)
(* same argument objects (number_of_gaussians may differ from call to      *)
(* call); every call starts with a fresh frame of locals.                  *)
(***************************************************************************)
EXTENDS Integers, Sequences, FiniteSets, TLC

VARIABLES
    \* the arguments of the call (the caller's objects)
    in_freq,              \* frequency_vector as passed in
    in_ndim,              \* input_psd.ndim
    in_psd,               \* input_psd, a sequence of rows (F rows of S values)
    frequency_range,      \* <<f_lo, f_hi>> in ticks
    number_of_gaussians,
    window_arg,           \* window_around_max as passed in (ticks)
    \* the locals of fooof
    pc,                   \* position in the body of fooof
    err,                  \* the exception that ended the call, "" if none
    raised_at,            \* where it was raised (history)
    window_around_max,    \* line 71: the window in index units
    frequency_vector,     \* line 74: the trimmed frequency vector
    foof_spec,            \* line 74: the trimmed power rows
    trimmed_psd,          \* line 84
    background_fit,       \* line 87
    p_flat_real,          \* line 88
    p_flat_iteration,     \* line 90: the working copy of the search
    guess,                \* the candidate/seed triples <<ctr, amp, wid>>
    gausi,                \* the search loop counter
    last_search,          \* what the last search iteration did (history)
    osc_bound,            \* is the local oscillation_params bound?
    oscillation_params,   \* the fitted triples <<ctr, amp, wid>>
    keep_osc,             \* the keep mask of the pruning loop
    rounds,               \* boundary-test rounds done (history)
    gaussian_fit,
    psd_fit,
    \* the environment of the calls
    calls,                \* calls of fooof that have ended
    returned,             \* number_of_gaussians -> how the first such call ended
    oracle                \* the answers curve_fit has given so far

args == <<in_freq, in_ndim, in_psd, frequency_range, number_of_gaussians, window_arg>>

pre == <<window_around_max, frequency_vector, foof_spec, trimmed_psd>>

flat == <<background_fit, p_flat_real, p_flat_iteration>>

srch == <<guess, gausi, last_search>>

fit == <<osc_bound, oscillation_params, keep_osc, rounds>>

outs == <<gaussian_fit, psd_fit>>

env == <<calls, returned, oracle>>

vars == <<args, pc, err, raised_at, pre, flat, srch, fit, outs, env>>

----------------------------------------------------------------------------
(* Bounds of the model. *)

\* number_of_gaussians ranges over 0..MaxGaussians
MaxGaussians == 2

\* window_around_max ranges over 0..MaxWindow Hz
MaxWindow == 3

\* the height of a tall spike of an input spectrum (a small one has height 1)
MaxAmp == 6

\* the input frequency vector spans 0..MaxFreqHz Hz
MaxFreqHz == 17

\* calls of fooof in one behaviour
MaxCalls == 3

----------------------------------------------------------------------------
(* Program constants. *)

\* guess_bw = 2. (milli-Hz)
guess_bw == 2000

\* lo_bw = 0.5 (milli-Hz)
lo_bw == 500

\* hi_bw = 10. (milli-Hz)
hi_bw == 10000

\* the ">5" of the centre tests of the pruning loop (Hz)
edge_margin == 5

\* the ">10e-4" of the width tests of the pruning loop (milli-Hz)
bw_tol == 1

----------------------------------------------------------------------------
(* Arithmetic and Python sequence semantics. *)

Hz(h) == 2 * h

\* the whole number of Hz of t ticks
InHz(t) == t \div 2

Abs(x) == IF x < 0 THEN -x ELSE x

Min(a, b) == IF a < b THEN a ELSE b

Max(a, b) == IF a > b THEN a ELSE b

\* np.ceil(a / b) for b > 0
CeilDiv(a, b) == -((-a) \div b)

\* s[i] for a 0-based index i >= 0
At(s, i) == s[i + 1]

\* how a slice bound i is normalised against a length n
PyIdx(i, n) == IF i < 0 THEN Max(i + n, 0) ELSE Min(i, n)

\* s[a:b]
PySlice(s, a, b) == SubSeq(s, PyIdx(a, Len(s)) + 1, PyIdx(b, Len(s)))

\* s[a:b] = 0
ZeroSlice(s, a, b) ==
    [k \in 1..Len(s) |->
        IF PyIdx(a, Len(s)) <= k - 1 /\ k - 1 < PyIdx(b, Len(s)) THEN 0 ELSE s[k]]

RECURSIVE Sum(_)
Sum(s) == IF s = <<>> THEN 0 ELSE Head(s) + Sum(Tail(s))

RECURSIVE SumSq(_)
SumSq(s) == IF s = <<>> THEN 0 ELSE Head(s) * Head(s) + SumSq(Tail(s))

\* the subsequence of s at the positions where mask is TRUE (zip + filter)
RECURSIVE Compress(_, _)
Compress(s, mask) ==
    IF s = <<>> \/ mask = <<>> THEN <<>>
    ELSE (IF Head(mask) THEN <<Head(s)>> ELSE <<>>) \o Compress(Tail(s), Tail(mask))

\* np.all
All(mask) == \A k \in 1..Len(mask) : mask[k]

----------------------------------------------------------------------------
(* get_index_from_vector and trim_psd. *)

\* the first index whose element is nearest to element_value
get_index_from_vector(input_vector, element_value) ==
    LET loc(k) == Abs(input_vector[k] - element_value)
        best == CHOOSE k \in 1..Len(input_vector) :
                    /\ \A j \in 1..Len(input_vector) : loc(k) <= loc(j)
                    /\ \A j \in 1..(k - 1) : loc(j) > loc(k)
    IN  best - 1

trim_idx(input_frequency_vector, range) ==
    <<get_index_from_vector(input_frequency_vector, range[1]),
      get_index_from_vector(input_frequency_vector, range[2])>>

\* output_frequency_vector = input_frequency_vector[idx[0]:idx[1]]
trim_freq(input_frequency_vector, range) ==
    LET idx == trim_idx(input_frequency_vector, range)
    IN  PySlice(input_frequency_vector, idx[1], idx[2])

\* trimmed_psd = input_psd[idx[0]:idx[1], :]
trim_rows(input_psd, input_frequency_vector, range) ==
    LET idx == trim_idx(input_frequency_vector, range)
    IN  PySlice(input_psd, idx[1], idx[2])

----------------------------------------------------------------------------
(* The inputs the model draws from. *)

\* frequency resolutions: 0.5 Hz and 1 Hz
Resolutions == {1, 2}

FreqVector(df) == [k \in 1..((Hz(MaxFreqHz) \div df) + 1) |-> (k - 1) * df]

\* where an input spectrum may have a spike (Hz)
SpikeHz == {2, 8, 10, 15}

SpikeHeights == {0, 1, MaxAmp}

\* one spectrum: level 1 plus the spikes sp (a height per place of SpikeHz)
Profile(df, sp) ==
    [k \in 1..Len(FreqVector(df)) |->
        IF \E h \in SpikeHz : Hz(h) = (k - 1) * df
        THEN 1 + sp[CHOOSE h \in SpikeHz : Hz(h) = (k - 1) * df]
        ELSE 1]

\* an F x S matrix of S equal spectra
Matrix(profile, S) == [k \in 1..Len(profile) |-> [c \in 1..S |-> profile[k]]]

OneSpike == [h \in SpikeHz |-> IF h = 8 THEN MaxAmp ELSE 0]

\* range endpoints for the calls that exercise the preprocessing (ticks):
\* below the vector, on a sample, halfway between two samples, above the vector
RangeEnds == {Hz(-1), Hz(1), Hz(1) + 1, Hz(8), Hz(16), Hz(20)}

SearchRange == <<Hz(1), Hz(16)>>

\* calls that exercise the search and the fits: a valid range, many spectra
SearchInputs ==
    [df : Resolutions, ndim : {2}, S : {1}, sp : [SpikeHz -> SpikeHeights],
     range : {SearchRange}, n : 0..MaxGaussians, win : 0..MaxWindow]

\* calls that exercise the preprocessing: many shapes and ranges, one spectrum
PreprocInputs ==
    [df : Resolutions, ndim : {1, 2, 3}, S : {1, 2}, sp : {OneSpike},
     range : RangeEnds \X RangeEnds, n : {1}, win : {1}]

\* spectra with a single tall spike
CallSpikes == {[h \in SpikeHz |-> IF h = at THEN MaxAmp ELSE 0] : at \in SpikeHz}

\* calls whose range ends on a half Hz, so that frequency_range[1] is a float
HalfHzInputs ==
    [df : Resolutions, ndim : {2}, S : {1}, sp : CallSpikes,
     range : {<<Hz(1), Hz(16) + 1>>}, n : {1}, win : 0..MaxWindow]

Inputs == SearchInputs \cup PreprocInputs \cup HalfHzInputs

\* the calls of the behaviours of several calls
CallInputs ==
    [df : Resolutions, ndim : {1, 2, 3}, S : {1}, sp : CallSpikes,
     range : {SearchRange, <<Hz(-1), Hz(20)>>, <<Hz(1), Hz(16) + 1>>},
     n : {0, 2}, win : {0, 2}]

----------------------------------------------------------------------------
NoFit == [kind |-> "unset", len |-> 0]

InitWith(inputs) ==
    \E inp \in inputs :
        /\ in_freq = FreqVector(inp.df)
        /\ in_ndim = inp.ndim
        /\ in_psd = Matrix(Profile(inp.df, inp.sp), inp.S)
        /\ frequency_range = inp.range
        /\ number_of_gaussians = inp.n
        /\ window_arg = Hz(inp.win)
        /\ pc = "check_dims"
        /\ err = ""
        /\ raised_at = ""
        /\ window_around_max = 0
        /\ frequency_vector = <<>>
        /\ foof_spec = <<>>
        /\ trimmed_psd = <<>>
        /\ background_fit = <<>>
        /\ p_flat_real = <<>>
        /\ p_flat_iteration = <<>>
        /\ guess = <<>>
        /\ gausi = 0
        /\ last_search = [kind |-> "none", index |-> 0]
        /\ osc_bound = FALSE
        /\ oscillation_params = <<>>
        /\ keep_osc = <<FALSE>>
        /\ rounds = 0
        /\ gaussian_fit = NoFit
        /\ psd_fit = NoFit
        /\ calls = 0
        /\ returned = <<>>
        /\ oracle = [background |-> {}, gauss |-> <<>>]

Init == InitWith(Inputs)

\* raise exc: the call ends, no local changes any more
Raise(exc) == pc' = "error" /\ err' = exc /\ raised_at' = pc

----------------------------------------------------------------------------
(* Lines 63-71: the dimension check and the window conversion. *)

\* fault: the check lets three dimensions through
DimsOkLoose(ndim) == ~(ndim > 3)

\* line 63: if input_psd.ndim > 2: raise
DimsOk(ndim) == ~(ndim > 2)

CheckDims ==
    /\ pc = "check_dims"
    /\ IF ~DimsOk(in_ndim)
       THEN /\ Raise("ValueError")
            /\ UNCHANGED window_around_max
       ELSE /\ window_around_max' = CeilDiv(window_arg, At(in_freq, 1) - At(in_freq, 0))
            /\ pc' = "trim"
            /\ UNCHANGED <<err, raised_at>>
    /\ UNCHANGED <<args, frequency_vector, foof_spec, trimmed_psd, flat, srch, fit, outs, env>>

----------------------------------------------------------------------------
(* Line 74: trim_psd.  input_psd[idx[0]:idx[1], :] indexes two axes, so a  *)
(* one-dimensional input_psd raises IndexError inside trim_psd.            *)

TwoAxisIndexOk(ndim) == ndim >= 2

Trim ==
    /\ pc = "trim"
    /\ IF ~TwoAxisIndexOk(in_ndim)
       THEN /\ Raise("IndexError")
            /\ UNCHANGED <<frequency_vector, foof_spec>>
       ELSE /\ frequency_vector' = trim_freq(in_freq, frequency_range)
            /\ foof_spec' = trim_rows(in_psd, in_freq, frequency_range)
            /\ pc' = "average"
            /\ UNCHANGED <<err, raised_at>>
    /\ UNCHANGED <<args, window_around_max, trimmed_psd, flat, srch, fit, outs, env>>

----------------------------------------------------------------------------
(* Lines 77-84: the transposition and the average over the spectra. *)

\* m.T for a matrix m of rows of ncols values
Transpose(m, ncols) == [c \in 1..ncols |-> [r \in 1..Len(m) |-> m[r][c]]]

\* np.nanmean(m, 0) of a matrix whose rows hold ncols numbers (none is NaN in
\* the model, and the inputs are chosen so that every mean is an integer)
NanMean0(m, ncols) ==
    [c \in 1..ncols |-> Sum([r \in 1..Len(m) |-> m[r][c]]) \div Len(m)]

Average ==
    /\ pc = "average"
    /\ LET S == Len(in_psd[1])
           T == Len(foof_spec)
       IN  trimmed_psd' =
               IF Len(frequency_vector) = T
               THEN NanMean0(Transpose(foof_spec, S), T)
               ELSE NanMean0(foof_spec, S)
    /\ pc' = "background"
    /\ UNCHANGED <<args, err, raised_at, window_around_max, frequency_vector, foof_spec,
                   flat, srch, fit, outs, env>>

----------------------------------------------------------------------------
(* Lines 87-90: clean_background_fit and the flattened spectrum.           *)
(* clean_background_fit makes three curve_fit calls; what it returns is a  *)
(* non-increasing curve, here a constant level drawn from BgLevels.        *)

BgLevels == {1, 2}

\* what makes clean_background_fit raise before any solver runs:
\* trimmed_psd[0] of an empty spectrum (line 393); a frequency <= 0, whose log10
\* is not finite (curve_fit checks its data); two parameters against one point
\* (line 395)
BackgroundError ==
    IF Len(trimmed_psd) = 0 THEN "IndexError"
    ELSE IF \E k \in 1..Len(frequency_vector) : frequency_vector[k] <= 0 THEN "ValueError"
    ELSE IF Len(trimmed_psd) < 2 THEN "TypeError"
    ELSE ""

\* p_flat_real = trimmed_psd - background_fit; p_flat_real[p_flat_real < 0] = 0
Flatten(psd, bg) == [k \in 1..Len(psd) |-> IF psd[k] - bg[k] < 0 THEN 0 ELSE psd[k] - bg[k]]

\* p_flat_iteration = np.copy(p_flat_real)
WorkingCopy(p) == p

\* the answers of the three fits of clean_background_fit, taken together:
\* one of them raises, or they return a curve
BackgroundAnswers ==
    IF oracle.background # {} THEN oracle.background
    ELSE {[ok |-> FALSE, val |-> 0]} \cup {[ok |-> TRUE, val |-> b] : b \in BgLevels}

\* a check of the data raises
BackgroundReject ==
    /\ pc = "background"
    /\ BackgroundError # ""
    /\ Raise(BackgroundError)
    /\ UNCHANGED <<args, pre, flat, srch, fit, outs, env>>

\* a fit does not converge
BackgroundFail ==
    /\ pc = "background"
    /\ BackgroundError = ""
    /\ \E a \in BackgroundAnswers :
        /\ ~a.ok
        /\ oracle' = [oracle EXCEPT !.background = {a}]
    /\ Raise("RuntimeError")
    /\ UNCHANGED <<args, pre, flat, srch, fit, outs, calls, returned>>

BackgroundFit ==
    /\ pc = "background"
    /\ BackgroundError = ""
    /\ \E a \in BackgroundAnswers :
        LET bg == [k \in 1..Len(trimmed_psd) |-> a.val]
        IN  /\ a.ok
            /\ oracle' = [oracle EXCEPT !.background = {a}]
            /\ background_fit' = bg
            /\ p_flat_real' = Flatten(trimmed_psd, bg)
            /\ p_flat_iteration' = WorkingCopy(Flatten(trimmed_psd, bg))
    /\ guess' = <<>>
    /\ gausi' = 0
    /\ pc' = "search"
    /\ UNCHANGED <<args, err, raised_at, pre, last_search, fit, outs, calls, returned>>

----------------------------------------------------------------------------
(* Lines 107-133: the peak search loop. *)

\* fault: the first index of a positive value, whatever its height
ArgFirstPositive(s) ==
    IF \E k \in 1..Len(s) : s[k] > 0
    THEN (CHOOSE k \in 1..Len(s) : s[k] > 0 /\ \A j \in 1..(k - 1) : ~(s[j] > 0)) - 1
    ELSE 0

\* np.argmax: the first index of the maximum
ArgMax(s) ==
    (CHOOSE k \in 1..Len(s) :
        /\ \A j \in 1..Len(s) : s[j] <= s[k]
        /\ \A j \in 1..(k - 1) : s[j] < s[k]) - 1

\* lines 114-116: the range edges divided by the step of the trimmed vector
cut_freq ==
    LET df == At(frequency_vector, 1) - At(frequency_vector, 0)
    IN  <<CeilDiv(frequency_range[1], df), CeilDiv(frequency_range[2], df)>>

\* fault: cut_freq = frequency_range, one list under two names
RangeAfterCutAliased(range) == cut_freq

\* line 114: cut_freq = [0,0] is a new list, so the assignments of lines
\* 115-116 do not reach the caller's frequency_range
RangeAfterCut(range) == range

max_index == ArgMax(p_flat_iteration)

drop_cond1 == (max_index - window_around_max) <= cut_freq[1]

drop_cond2 == (max_index + window_around_max) >= cut_freq[2]

\* fault: the loop runs once more
SearchContinuesOnceMore(i, n) == i <= n

\* line 109: while gausi < number_of_gaussians
SearchContinues(i, n) == i < n

\* lines 125-126: flat_range = (max_index - w, max_index + w); p[a:b] = 0
ZeroWindow(p, i, w) == ZeroSlice(p, i - w, i + w)

\* lines 128-129: flat_range = (0, max_index + w)
ZeroLowEdge(p, i, w) == ZeroSlice(p, 0, i + w)

\* lines 131-132: flat_range = (max_index - w, frequency_range[1]): the upper end
\* of the requested range, a frequency in Hz, is the stop index of the slice
ZeroHighEdge(p, i, w) == ZeroSlice(p, i - w, InHz(frequency_range[2]))

\* frequency_range[1] can be a slice index only if it is an integer: a whole
\* number of Hz is passed as an int, any other value is a float
StopIsInt == frequency_range[2] % 2 = 0

\* fault: p_flat_iteration = p_flat_real, one array under two names
RealAliased(real, work) == work

\* line 90: np.copy gives the search an array of its own, so the zero-out
\* assignments of lines 126, 129 and 132 do not reach p_flat_real
RealAfterZero(real, work) == real

\* lines 120-126: no drop condition holds, a candidate is recorded
SearchRecord ==
    /\ pc = "search"
    /\ SearchContinues(gausi, number_of_gaussians)
    /\ ~(drop_cond1 \/ drop_cond2)
    /\ guess' = Append(guess, <<At(frequency_vector, max_index),
                                At(p_flat_iteration, max_index), guess_bw>>)
    /\ p_flat_iteration' = ZeroWindow(p_flat_iteration, max_index, window_around_max)
    /\ last_search' = [kind |-> "record", index |-> max_index]
    /\ gausi' = gausi + 1
    /\ p_flat_real' = RealAfterZero(p_flat_real, p_flat_iteration')
    /\ frequency_range' = RangeAfterCut(frequency_range)
    /\ UNCHANGED <<in_freq, in_ndim, in_psd, number_of_gaussians, window_arg,
                   pc, err, raised_at, pre, background_fit, fit, outs, env>>

\* lines 127-132: a drop condition holds (both may), no candidate is recorded
SearchDrop ==
    /\ pc = "search"
    /\ SearchContinues(gausi, number_of_gaussians)
    /\ drop_cond1 \/ drop_cond2
    /\ LET p1 == IF drop_cond1
                 THEN ZeroLowEdge(p_flat_iteration, max_index, window_around_max)
                 ELSE p_flat_iteration
       IN  IF drop_cond2 /\ ~StopIsInt
           THEN /\ p_flat_iteration' = p1
                /\ Raise("TypeError")
                /\ UNCHANGED <<gausi, last_search>>
           ELSE /\ p_flat_iteration' =
                       IF drop_cond2
                       THEN ZeroHighEdge(p1, max_index, window_around_max)
                       ELSE p1
                /\ last_search' =
                       [kind |-> IF drop_cond1 THEN "drop_low" ELSE "drop_high",
                        index |-> max_index]
                /\ gausi' = gausi + 1
                /\ UNCHANGED <<pc, err, raised_at>>
    /\ p_flat_real' = RealAfterZero(p_flat_real, p_flat_iteration')
    /\ frequency_range' = RangeAfterCut(frequency_range)
    /\ UNCHANGED <<in_freq, in_ndim, in_psd, number_of_gaussians, window_arg,
                   pre, background_fit, guess, fit, outs, env>>

\* line 135: if len(guess) > 0 ... else the fallback of lines 195-206
SearchExit ==
    /\ pc = "search"
    /\ ~SearchContinues(gausi, number_of_gaussians)
    /\ pc' = IF Len(guess) > 0 THEN "filter" ELSE "fallback"
    /\ UNCHANGED <<args, err, raised_at, pre, flat, srch, fit, outs, env>>

----------------------------------------------------------------------------
(* Lines 137-150: the amplitude filter. *)

\* amp > 0.5 * np.var(p): with n = len(p), var = (n*sum(p^2) - sum(p)^2) / n^2
AboveAmpCut(amp, p) ==
    2 * amp * Len(p) * Len(p) > Len(p) * SumSq(p) - Sum(p) * Sum(p)

AmpFilter ==
    /\ pc = "filter"
    /\ LET mask == [k \in 1..Len(guess) |-> AboveAmpCut(guess[k][2], p_flat_real)]
       IN  /\ keep_osc' = mask
           /\ guess' = Compress(guess, mask)
    /\ pc' = "first_fit"
    /\ UNCHANGED <<args, err, raised_at, pre, flat, gausi, last_search, osc_bound,
                   oscillation_params, rounds, outs, env>>

----------------------------------------------------------------------------
(* curve_fit(gaussian_function, ..., p0, bounds): the bounds are            *)
(* lo_bound = (f_lo, 0, lo_bw) and hi_bound = (f_hi, inf, hi_bw) per peak. *)

InBounds(t) ==
    /\ frequency_range[1] <= t[1] /\ t[1] <= frequency_range[2]
    /\ 0 <= t[2]
    /\ lo_bw <= t[3] /\ t[3] <= hi_bw

\* fits of one peak seeded with the triple seed: the seed's centre with the
\* seed width of line 123, the seed's centre with the width at its upper bound,
\* the centre at its upper bound
PeakFits(seed) ==
    {t \in {<<seed[1], seed[2], guess_bw>>,
            <<seed[1], seed[2], hi_bw>>,
            <<frequency_range[2], seed[2], seed[3]>>} : InBounds(t)}

\* what a converging joint fit may return for the seeds p0
RECURSIVE FitResults(_)
FitResults(p0) ==
    IF p0 = <<>> THEN {<<>>}
    ELSE {<<h>> \o t : h \in PeakFits(Head(p0)), t \in FitResults(Tail(p0))}

NoConvergence == [ok |-> FALSE, val |-> <<>>]

\* the answer of curve_fit to the seeds p0 (the data and the bounds are the
\* same in every call of a behaviour)
GaussAnswers(p0) ==
    IF p0 \in DOMAIN oracle.gauss THEN {oracle.gauss[p0]}
    ELSE {NoConvergence} \cup {[ok |-> TRUE, val |-> r] : r \in FitResults(p0)}

Remember(p0, a) ==
    oracle' = [oracle EXCEPT !.gauss =
                  IF p0 \in DOMAIN oracle.gauss THEN oracle.gauss
                  ELSE oracle.gauss @@ (p0 :> a)]

----------------------------------------------------------------------------
(* Lines 151-156: the first joint fit, inside try/except: pass. *)

\* the solver returns: oscillation_params is bound.  With no seed left
\* (len(p0) = 0) no bound is finite, curve_fit takes its unbounded method and
\* MINPACK reports improper input, which curve_fit raises: that is FirstFitFail;
\* a solver returning an empty vector instead is this action with p0 = <<>>.
FirstFitOk ==
    /\ pc = "first_fit"
    /\ \E a \in GaussAnswers(guess) :
        /\ a.ok
        /\ Remember(guess, a)
        /\ oscillation_params' = a.val
    /\ osc_bound' = TRUE
    /\ keep_osc' = <<FALSE>>
    /\ pc' = "prune"
    /\ UNCHANGED <<args, err, raised_at, pre, flat, srch, rounds, outs, calls, returned>>

\* the solver raises and "except: pass" discards it: oscillation_params is
\* left as it was, which is unbound
FirstFitFail ==
    /\ pc = "first_fit"
    /\ \E a \in GaussAnswers(guess) :
        /\ ~a.ok
        /\ Remember(guess, a)
    /\ keep_osc' = <<FALSE>>
    /\ pc' = "prune"
    /\ UNCHANGED <<args, err, raised_at, pre, flat, srch, osc_bound, oscillation_params,
                   rounds, outs, calls, returned>>

----------------------------------------------------------------------------
(* Lines 157-176: the pruning loop. *)

\* group_three
RECURSIVE group_three(_)
group_three(vec) ==
    IF Len(vec) = 0 THEN <<>>
    ELSE <<SubSeq(vec, 1, Min(3, Len(vec)))>> \o group_three(SubSeq(vec, 4, Len(vec)))

\* list(itertools.chain.from_iterable(...))
RECURSIVE Chain(_)
Chain(groups) == IF groups = <<>> THEN <<>> ELSE Head(groups) \o Chain(Tail(groups))

\* lines 162-165: the four tests of one fitted peak.  cf (a frequency, in
\* ticks) is compared with cut_freq (an index), both taken as plain numbers
KeepPeak(osc) ==
    /\ Abs(osc[1] - Hz(cut_freq[1])) > Hz(edge_margin)
    /\ Abs(osc[1] - Hz(cut_freq[2])) > Hz(edge_margin)
    /\ Abs(osc[3] - lo_bw) > bw_tol
    /\ Abs(osc[3] - hi_bw) > bw_tol

\* line 159: osc_params = group_three(oscillation_params)
osc_params == group_three(Chain(oscillation_params))

\* lines 162-165: keep_osc
keep_mask == [k \in 1..Len(osc_params) |-> KeepPeak(osc_params[k])]

\* fault: the tests are made and no peak is removed
keptAll == osc_params

\* line 166: guess = [d for (d, remove) in zip(osc_params, keep_osc) if remove]
kept == Compress(osc_params, keep_mask)

\* line 157: while ~np.all(keep_osc)
InPruneLoop == pc = "prune" /\ ~All(keep_osc)

\* line 159 with oscillation_params unbound
PruneUnbound ==
    /\ InPruneLoop
    /\ ~osc_bound
    /\ Raise("UnboundLocalError")
    /\ UNCHANGED <<args, pre, flat, srch, fit, outs, env>>

\* a round that keeps a peak: lines 167-171, the refit of the kept peaks returns
PruneRefit ==
    /\ InPruneLoop
    /\ osc_bound
    /\ Len(kept) > 0
    /\ guess' = kept
    /\ keep_osc' = keep_mask
    /\ \E a \in GaussAnswers(kept) :
        /\ a.ok
        /\ Remember(kept, a)
        /\ oscillation_params' = a.val
    /\ rounds' = rounds + 1
    /\ UNCHANGED <<args, pc, err, raised_at, pre, flat, gausi, last_search, osc_bound, outs,
                   calls, returned>>

\* a round that keeps a peak: the refit raises (it is in no try block)
PruneRefitFail ==
    /\ InPruneLoop
    /\ osc_bound
    /\ Len(kept) > 0
    /\ guess' = kept
    /\ keep_osc' = keep_mask
    /\ \E a \in GaussAnswers(kept) :
        /\ ~a.ok
        /\ Remember(kept, a)
    /\ rounds' = rounds + 1
    /\ Raise("RuntimeError")
    /\ UNCHANGED <<args, pre, flat, gausi, last_search, osc_bound,
                   oscillation_params, outs, calls, returned>>

\* a round that keeps no peak: lines 175-176
PruneNoneLeft ==
    /\ InPruneLoop
    /\ osc_bound
    /\ Len(kept) = 0
    /\ guess' = kept
    /\ keep_osc' = <<TRUE>>
    /\ oscillation_params' = <<>>
    /\ rounds' = rounds + 1
    /\ UNCHANGED <<args, pc, err, raised_at, pre, flat, gausi, last_search, osc_bound, outs, env>>

\* line 157: the loop ends when np.all(keep_osc)
PruneExit ==
    /\ pc = "prune"
    /\ All(keep_osc)
    /\ pc' = "compose"
    /\ UNCHANGED <<args, err, raised_at, pre, flat, srch, fit, outs, env>>

----------------------------------------------------------------------------
(* Lines 178-206: the result. *)

\* lines 179-180
ComposePeaks ==
    /\ pc = "compose"
    /\ Len(oscillation_params) > 0
    /\ gaussian_fit' = [kind |-> "gaussian_function", len |-> Len(frequency_vector)]
    /\ psd_fit' = [kind |-> "gaussian_fit + background_fit", len |-> Len(frequency_vector)]
    /\ pc' = "done"
    /\ UNCHANGED <<args, err, raised_at, pre, flat, srch, fit, env>>

\* the fallback is taken after the pruning loop (lines 182-192) or with no
\* candidate recorded (lines 196-206)
AtFallback == pc = "fallback" \/ (pc = "compose" /\ ~(Len(oscillation_params) > 0))

\* the linear fit and the bounded quadratic fit of trimmed_psd: the calls of
\* lines 395 and 400 made again with the same arguments.  They returned there
\* (clean_background_fit returned), so they return here.
FallbackFit ==
    /\ AtFallback
    /\ psd_fit' = [kind |-> "quadratic_function(trimmed_psd)", len |-> Len(frequency_vector)]
    /\ gaussian_fit' = [kind |-> "zeros", len |-> Len(frequency_vector)]
    /\ oscillation_params' = <<>>
    /\ osc_bound' = TRUE
    /\ pc' = "done"
    /\ UNCHANGED <<args, err, raised_at, pre, flat, srch, keep_osc, rounds, env>>

----------------------------------------------------------------------------
(* The caller: what a call gives back, and the next call. *)

\* line 208 (background_params is the level of background_fit), or the exception
Outcome ==
    [status |-> pc,
     err |-> err,
     ret |-> IF pc = "done"
             THEN <<p_flat_real, frequency_vector, trimmed_psd, psd_fit,
                    background_fit, gaussian_fit, oscillation_params>>
             ELSE <<>>]

Ended == pc \in {"done", "error"}

\* the locals of a new call: a fresh frame
FreshFrame ==
    /\ pc' = "check_dims"
    /\ err' = ""
    /\ raised_at' = ""
    /\ window_around_max' = 0
    /\ frequency_vector' = <<>>
    /\ foof_spec' = <<>>
    /\ trimmed_psd' = <<>>
    /\ background_fit' = <<>>
    /\ p_flat_real' = <<>>
    /\ p_flat_iteration' = <<>>
    /\ guess' = <<>>
    /\ gausi' = 0
    /\ last_search' = [kind |-> "none", index |-> 0]
    /\ osc_bound' = FALSE
    /\ oscillation_params' = <<>>
    /\ keep_osc' = <<FALSE>>
    /\ rounds' = 0
    /\ gaussian_fit' = NoFit
    /\ psd_fit' = NoFit

\* the caller calls fooof again on the same objects, with a maximum number
\* of peaks it has used before or with none
CallAgain ==
    /\ Ended
    /\ calls + 1 < MaxCalls
    /\ calls' = calls + 1
    /\ returned' = IF number_of_gaussians \in DOMAIN returned THEN returned
                   ELSE returned @@ (number_of_gaussians :> Outcome)
    /\ \E n \in DOMAIN returned' \cup {0} : number_of_gaussians' = n
    /\ FreshFrame
    /\ UNCHANGED <<in_freq, in_ndim, in_psd, frequency_range, window_arg, oracle>>

----------------------------------------------------------------------------
Next ==
    \/ CheckDims
    \/ Trim
    \/ Average
    \/ BackgroundReject
    \/ BackgroundFit
    \/ BackgroundFail
    \/ SearchRecord
    \/ SearchDrop
    \/ SearchExit
    \/ AmpFilter
    \/ FirstFitOk
    \/ FirstFitFail
    \/ PruneUnbound
    \/ PruneRefit
    \/ PruneRefitFail
    \/ PruneNoneLeft
    \/ PruneExit
    \/ ComposePeaks
    \/ FallbackFit

\* one call of fooof
Spec == Init /\ [][Next]_vars

\* calls of fooof one after the other, on fewer spectra
InitCalls == InitWith(CallInputs)

NextCalls == Next \/ CallAgain

SpecCalls == InitCalls /\ [][NextCalls]_vars

----------------------------------------------------------------------------
(* The properties. *)

\* the requested range is a FrequencyRange of the data model: f_lo < f_hi,
\* both inside the span of the frequency vector
ValidRange ==
    /\ frequency_range[1] < frequency_range[2]
    /\ in_freq[1] <= frequency_range[1]
    /\ frequency_range[2] <= in_freq[Len(in_freq)]

BeforeAveraged == {"check_dims", "trim", "average"}

\* C1: whenever the aperiodic fit succeeded, the search is over and no peak
\* is left (none recorded, or all removed by the amplitude filter, or all
\* pruned), a call that has ended has returned, with an empty peak list, an
\* all-zero peak fit and the fallback fit as its full fit.
C1_ZeroPeaksFallBack ==
    (Ended /\ Len(background_fit) > 0 /\ gausi = number_of_gaussians /\ guess = <<>>)
        => /\ pc = "done"
           /\ oscillation_params = <<>>
           /\ gaussian_fit = [kind |-> "zeros", len |-> Len(frequency_vector)]
           /\ psd_fit.kind = "quadratic_function(trimmed_psd)"

\* C2: a failure of the first joint fit is not swallowed: the pruning loop
\* is never entered with oscillation_params undefined, and no call ends with
\* the error of reading an undefined oscillation_params.
C2_FirstFitFailureSurfaced ==
    /\ InPruneLoop => osc_bound
    /\ err # "UnboundLocalError"

\* C3: once a candidate is recorded at index i with exclusion width w, the
\* working spectrum is zero at every index of the closed range [i-w, i+w].
C3_ClosedWindowZeroed ==
    last_search.kind = "record" =>
        \A j \in (last_search.index - window_around_max)..
                 (last_search.index + window_around_max) :
            (0 <= j /\ j < Len(p_flat_iteration)) => At(p_flat_iteration, j) = 0

\* C4: every returned peak has its centre more than 5 Hz from f_lo and from
\* f_hi, and its width more than 1e-3 from lo_bw and from hi_bw.
C4_ReturnedPeaksOffBounds ==
    pc = "done" =>
        \A k \in 1..Len(oscillation_params) :
            /\ Abs(oscillation_params[k][1] - frequency_range[1]) > Hz(edge_margin)
            /\ Abs(oscillation_params[k][1] - frequency_range[2]) > Hz(edge_margin)
            /\ Abs(oscillation_params[k][3] - lo_bw) > bw_tol
            /\ Abs(oscillation_params[k][3] - hi_bw) > bw_tol

\* C5: the search records at most one candidate per iteration and runs at
\* most number_of_gaussians iterations, and no later step adds a peak: the
\* seeds and the fitted peaks never outnumber number_of_gaussians, and with
\* number_of_gaussians = 0 the returned peak list is empty.
C5_PeakCountBounded ==
    /\ Len(guess) <= gausi
    /\ gausi <= number_of_gaussians
    /\ Len(oscillation_params) <= number_of_gaussians
    /\ (pc = "done" /\ number_of_gaussians = 0) => oscillation_params = <<>>

\* a call returns as many peaks as it may
C5_Witness ==
    /\ pc = "done"
    /\ number_of_gaussians = MaxGaussians
    /\ Len(oscillation_params) = number_of_gaussians

\* C6: for a valid range, trim_psd returns a frequency vector that starts at
\* the input frequency nearest to f_lo and ends at the one nearest to f_hi,
\* and power rows of the same length.
C6_TrimEndsAtNearest ==
    (in_ndim = 2 /\ pc \notin {"check_dims", "trim"} /\ ValidRange) =>
        /\ Len(frequency_vector) > 0
        /\ frequency_vector[1] =
               At(in_freq, get_index_from_vector(in_freq, frequency_range[1]))
        /\ frequency_vector[Len(frequency_vector)] =
               At(in_freq, get_index_from_vector(in_freq, frequency_range[2]))
        /\ Len(foof_spec) = Len(frequency_vector)

\* C7: a call whose range is not valid fails at once with a range error:
\* nothing is trimmed, averaged or fitted, and no other error ends it.
C7_BadRangeFailsAtOnce ==
    (in_ndim = 2 /\ ~ValidRange) =>
        /\ pc \in {"check_dims", "trim", "error"}
        /\ pc = "error" => err = "RangeError"
        /\ frequency_vector = <<>> /\ foof_spec = <<>> /\ trimmed_psd = <<>>

\* C8: with power data of more than two dimensions the first step of the
\* call raises ValueError: no local of the later steps is ever assigned and
\* nothing is returned.
C8_TooManyDimsRejectedFirst ==
    in_ndim > 2 =>
        /\ pc \in {"check_dims", "error"}
        /\ pc = "error" => (err = "ValueError" /\ raised_at = "check_dims")
        /\ window_around_max = 0
        /\ frequency_vector = <<>> /\ foof_spec = <<>> /\ trimmed_psd = <<>>
        /\ background_fit = <<>> /\ p_flat_real = <<>>
        /\ gaussian_fit = NoFit /\ psd_fit = NoFit

C8_Witness == in_ndim > 2 /\ pc = "error" /\ err = "ValueError"

\* C9: for one- and two-dimensional power data and a valid range, no error
\* is raised by the dimension check, the trimming or the averaging, and the
\* averaged spectrum is as long as the trimmed frequency vector.
C9_BothShapesAccepted ==
    (in_ndim <= 2 /\ ValidRange) =>
        /\ raised_at \notin BeforeAveraged
        /\ pc \notin BeforeAveraged => Len(trimmed_psd) = Len(frequency_vector)

\* the call that has ended ended as the first call with the same arguments
RepeatAgrees ==
    (Ended /\ number_of_gaussians \in DOMAIN returned) =>
        Outcome = returned[number_of_gaussians]

\* C10: a call that ends ends as every earlier call with the same arguments
\* did, whatever calls were made in between, and no step of a call changes
\* the frequency vector, the power data or the frequency range it was given.
C10_Pure ==
    /\ []RepeatAgrees
    /\ [][/\ in_freq' = in_freq
          /\ in_psd' = in_psd
          /\ frequency_range' = frequency_range]_vars

\* a third call returns peaks, after a call with the same arguments and a
\* call with no peak allowed
C10_Witness ==
    /\ calls = 2
    /\ pc = "done"
    /\ Len(oscillation_params) > 0
    /\ DOMAIN returned = {0, number_of_gaussians}

\* C11: while the search runs and when it is over, the recorded candidates
\* are in order of non-increasing amplitude: an earlier candidate is at least
\* as high as every later one.
C11_AmplitudesNonIncreasing ==
    pc \in {"search", "filter", "fallback"} =>
        \A a, b \in 1..Len(guess) : a < b => guess[a][2] >= guess[b][2]

\* two candidates of different heights are recorded
C11_Witness ==
    /\ pc = "search"
    /\ Len(guess) >= 2
    /\ guess[1][2] > guess[2][2]

\* C12: after an iteration in which only the upper edge condition held, no
\* candidate has been recorded in it and the working spectrum is zero at
\* every index from (index - exclusion width) through the last index of the
\* trimmed frequency vector, the located maximum included.
C12_DropHighZeroesToEnd ==
    last_search.kind = "drop_high" =>
        /\ Len(guess) < gausi
        /\ \A j \in Max(last_search.index - window_around_max, 0)..
                    (Len(p_flat_iteration) - 1) : At(p_flat_iteration, j) = 0

BeforeSearch == BeforeAveraged \cup {"background"}

\* C13: once a call is past its search loop, however it left it, the loop
\* has made exactly number_of_gaussians iterations, each of which recorded
\* one candidate or none.
C13_SearchRunsAllIterations ==
    (pc \notin BeforeSearch /\ raised_at \notin BeforeSearch /\ pc # "search") =>
        /\ gausi = number_of_gaussians
        /\ Len(guess) <= gausi \/ pc \notin {"filter", "fallback"}

\* k: the number of peaks of the first joint fit, the largest fit the
\* solver has been asked for in the call
EntryPeaks ==
    IF DOMAIN oracle.gauss = {} THEN 0
    ELSE Len(CHOOSE p \in DOMAIN oracle.gauss :
                 \A q \in DOMAIN oracle.gauss : Len(q) <= Len(p))

\* the pruning loop is entered with k peaks and never makes more than k + 1
\* rounds
RoundsBounded ==
    /\ (pc = "prune" /\ osc_bound /\ rounds = 0) => Len(oscillation_params) = EntryPeaks
    /\ rounds <= EntryPeaks + 1

\* a round followed by another round has removed a peak
RoundRemoves ==
    (rounds' = rounds + 1 /\ InPruneLoop') =>
        Len(oscillation_params') < Len(oscillation_params)

\* the loop is left after a round that removed no peak or left none
ExitsWhenSettled ==
    (pc = "prune" /\ pc' = "compose") =>
        /\ rounds >= 1
        /\ \/ oscillation_params = <<>>
           \/ Len(keep_osc) = Len(oscillation_params) /\ All(keep_osc)

\* C14: with every solver call returning, the pruning loop entered with k
\* fitted peaks makes at most k + 1 rounds, every round that is followed by
\* another round has strictly fewer peaks after it than before it, and the
\* loop is left only after a round that discarded no peak or left no peak.
C14_PruningTerminates ==
    /\ []RoundsBounded
    /\ [][RoundRemoves /\ ExitsWhenSettled]_vars

\* two peaks are fitted, a round removes one, the next round removes none
C14_Witness ==
    /\ pc = "done"
    /\ EntryPeaks = 2
    /\ rounds = 2
    /\ Len(oscillation_params) = 1

\* C15: from the flattening on, through every search iteration and up to
\* the return, p_flat_real is at every index the trimmed spectrum minus the
\* aperiodic fit, with negative values replaced by zero.
C15_FlatSpectrumKept ==
    Len(background_fit) > 0 =>
        /\ Len(p_flat_real) = Len(trimmed_psd)
        /\ \A j \in 1..Len(p_flat_real) :
               p_flat_real[j] = Max(trimmed_psd[j] - background_fit[j], 0)

\* a candidate has been recorded and its window zeroed in the working
\* spectrum, where the flattened spectrum is still positive
C15_Witness ==
    /\ last_search.kind = "record"
    /\ window_around_max > 0
    /\ At(p_flat_iteration, last_search.index) = 0
    /\ At(p_flat_real, last_search.index) > 0
    /\ pc = "done"

====
